---- MODULE Spec2Model ----
(***************************************************************************)
(* A model of the SOLUSync-X web client: ClockSync (client-web/src/clock), *)
(* FutureAudioPlayer and SoluSyncClient.                                   *)
(*                                                                         *)
(* JavaScript numbers are modelled as exact rationals <<n, d>> (d > 0, in  *)
(* lowest terms) together with one non-number, NaN == <<0, 0>>, which also *)
(* stands for `undefined` where the code reads a missing field: both are   *)
(* falsy and both turn every arithmetic result into NaN.                   *)
(***************************************************************************)
EXTENDS Integers, Sequences, FiniteSets, TLC

VARIABLES
    wall,            \* Date.now() / 1000, whole seconds
    offset,          \* ClockSync.offset
    drift,           \* ClockSync.drift
    samples,         \* ClockSync.samples
    lastSyncTime,    \* ClockSync.lastSyncTime
    lastSyncT1,      \* window.__lastSyncT1
    probes,          \* t1 of every clock_sync message sent so far
    handled,         \* history: what the last handleResponse call read
    submitted,       \* history: the sample this step passed to addSample
    lastCall,        \* history: the handler that ran last
    trimSeen,        \* history: addSample has discarded a sample
    nOps,            \* history: number of ClockSync handler calls so far
    resetSeen,       \* history: reset() has been called after a sample
    audioContext,    \* FutureAudioPlayer.audioContext exists
    microtasks,      \* suspended scheduleFrame calls, in resumption order
    sources,         \* every AudioBufferSourceNode created, in creation order
    scheduledSources,\* FutureAudioPlayer.scheduledSources: sequence -> source
    outcomes,        \* history: how each finished scheduleFrame call ended
    nCalls,          \* history: number of scheduleFrame calls so far
    nextSequence,    \* FutureAudioPlayer.nextSequence
    decoding,        \* playBuffer calls suspended in decodeAudioData
    played,          \* history: how each finished playBuffer call ended
    ws,              \* SoluSyncClient.ws: a socket, or 0 for undefined
    connected,       \* SoluSyncClient.connected
    heartbeatInterval, \* SoluSyncClient.heartbeatInterval: a timer, or 0
    clockSyncInterval, \* SoluSyncClient.clockSyncInterval: a timer, or 0
    sockets,         \* readyState of every WebSocket created
    timers,          \* the armed interval timers: [id, kind]
    nTimers,         \* number of interval timers created so far
    sent,            \* history: [socket, type] of the messages sent
    commands         \* history: every play, pause and stop call, in order

clockVars == <<offset, drift, samples, lastSyncTime>>
syncVars == <<lastSyncT1, probes, handled>>
histVars == <<submitted, lastCall, trimSeen, resetSeen>>
bufferVars == <<nextSequence, decoding, played>>
playerVars ==
    <<audioContext, microtasks, sources, scheduledSources, outcomes, nCalls,
      nextSequence, decoding, played>>
clientVars ==
    <<ws, connected, heartbeatInterval, clockSyncInterval, sockets, timers,
      nTimers, sent, commands>>
vars == <<wall, offset, drift, samples, lastSyncTime, lastSyncT1, probes,
          handled, submitted, lastCall, trimSeen, nOps, resetSeen,
          audioContext, microtasks, sources, scheduledSources, outcomes,
          nCalls, nextSequence, decoding, played, ws, connected,
          heartbeatInterval, clockSyncInterval, sockets, timers, nTimers,
          sent, commands>>

----------------------------------------------------------------------------
(* Bounds of the model *)

MaxWall == 2
MaxOps == 5
MaxRingWall == 2

----------------------------------------------------------------------------
(* JavaScript numbers *)

NaN == <<0, 0>>
Undefined == NaN

IsNaN(a) == a[2] = 0

AbsInt(i) == IF i < 0 THEN -i ELSE i

RECURSIVE GCD(_, _)
GCD(a, b) == IF b = 0 THEN a ELSE GCD(b, a % b)

Norm(n, d) ==
    LET g == GCD(AbsInt(n), d)
    IN  <<n \div g, d \div g>>

Num(i) == <<i, 1>>

Frac(n, d) == Norm(n, d)

Add(a, b) ==
    IF IsNaN(a) \/ IsNaN(b) THEN NaN
    ELSE Norm(a[1] * b[2] + b[1] * a[2], a[2] * b[2])

Neg(a) == IF IsNaN(a) THEN NaN ELSE <<-a[1], a[2]>>

Sub(a, b) == Add(a, Neg(b))

Mul(a, b) ==
    IF IsNaN(a) \/ IsNaN(b) THEN NaN
    ELSE Norm(a[1] * b[1], a[2] * b[2])

\* a / b; the code divides only by 2 and by a denominator it has tested
Div(a, b) ==
    IF IsNaN(a) \/ IsNaN(b) \/ b[1] = 0 THEN NaN
    ELSE IF b[1] > 0 THEN Norm(a[1] * b[2], a[2] * b[1])
    ELSE Norm(-(a[1] * b[2]), a[2] * (-b[1]))

\* a < b; every comparison with NaN is false
Lt(a, b) == ~IsNaN(a) /\ ~IsNaN(b) /\ a[1] * b[2] < b[1] * a[2]

Gt(a, b) == Lt(b, a)

Abs(a) == IF IsNaN(a) THEN NaN ELSE <<AbsInt(a[1]), a[2]>>

\* a || b on numbers: 0, NaN and undefined are falsy
OrElse(a, b) == IF IsNaN(a) \/ a[1] = 0 THEN b ELSE a

Min(i, j) == IF i < j THEN i ELSE j

----------------------------------------------------------------------------
(* ClockSync *)

maxSamples == 20

filterWeight == Frac(1, 10)

DriftEpsilon == Frac(1, 10000)

DriftWindow == 10

\* samples.slice(-n)
SliceLast(s, n) ==
    IF Len(s) <= n THEN s ELSE SubSeq(s, Len(s) - n + 1, Len(s))

\* the sum of the numbers q[i..Len(q)], added in order
RECURSIVE SumFrom(_, _)
SumFrom(q, i) ==
    IF i > Len(q) THEN Num(0) ELSE Add(q[i], SumFrom(q, i + 1))

\* the least-squares slope of offset against timestamp over the last
\* min(10, |samples|) samples, or the old drift when the denominator is small
CalculateDrift(smp, oldDrift) ==
    IF Len(smp) < 3 THEN oldDrift
    ELSE
    LET n == Min(DriftWindow, Len(smp))
        recent == SliceLast(smp, n)
        t0 == recent[1].timestamp
        X(s) == Sub(s.timestamp, t0)
        Y(s) == s.offset
        XY(s) == Mul(X(s), Y(s))
        XX(s) == Mul(X(s), X(s))
        sumX == SumFrom([i \in 1..n |-> X(recent[i])], 1)
        sumY == SumFrom([i \in 1..n |-> Y(recent[i])], 1)
        sumXY == SumFrom([i \in 1..n |-> XY(recent[i])], 1)
        sumXX == SumFrom([i \in 1..n |-> XX(recent[i])], 1)
        denom == Sub(Mul(Num(n), sumXX), Mul(sumX, sumX))
    IN  IF Gt(Abs(denom), DriftEpsilon)
        THEN Div(Sub(Mul(Num(n), sumXY), Mul(sumX, sumY)), denom)
        ELSE oldDrift

\* a trim that keeps one sample too many
TrimmedOffByOne(smp, sample) ==
    LET pushed == Append(smp, sample)
    IN  IF Len(pushed) > maxSamples + 1
        THEN SliceLast(pushed, maxSamples + 1)
        ELSE pushed

\* a trim that discards the newest samples
TrimmedKeepsOldest(smp, sample) ==
    LET pushed == Append(smp, sample)
    IN  IF Len(pushed) > maxSamples THEN SubSeq(pushed, 1, maxSamples)
        ELSE pushed

\* the samples after push and trim
Trimmed(smp, sample) ==
    LET pushed == Append(smp, sample)
    IN  IF Len(pushed) > maxSamples THEN SliceLast(pushed, maxSamples)
        ELSE pushed

\* an addSample that first computes the drift at the fourth sample
AddSampleDriftFromFour(c, sample) ==
    LET kept == Trimmed(c.samples, sample)
        newOffset == Add(Mul(c.offset, Sub(Num(1), filterWeight)),
                         Mul(sample.offset, filterWeight))
    IN  [offset |-> newOffset,
         drift |-> IF Len(kept) >= 4 THEN CalculateDrift(kept, c.drift)
                   ELSE c.drift,
         samples |-> kept,
         lastSyncTime |-> sample.timestamp]

\* the ClockSync fields after addSample(sample) on the fields c
AddSample(c, sample) ==
    LET kept == Trimmed(c.samples, sample)
        newOffset == Add(Mul(c.offset, Sub(Num(1), filterWeight)),
                         Mul(sample.offset, filterWeight))
    IN  [offset |-> newOffset,
         drift |-> IF Len(kept) >= 3 THEN CalculateDrift(kept, c.drift)
                   ELSE c.drift,
         samples |-> kept,
         lastSyncTime |-> sample.timestamp]

\* the fields of a newly constructed ClockSync
FreshClock ==
    [offset |-> Num(0), drift |-> Num(0), samples |-> <<>>,
     lastSyncTime |-> Num(0)]

\* a reset that forgets the drift
ResetKeepsDrift(c) ==
    [offset |-> Num(0), drift |-> c.drift, samples |-> <<>>,
     lastSyncTime |-> Num(0)]

\* the fields after reset()
ResetClock(c) ==
    [offset |-> Num(0), drift |-> Num(0), samples |-> <<>>,
     lastSyncTime |-> Num(0)]

Clock ==
    [offset |-> offset, drift |-> drift, samples |-> samples,
     lastSyncTime |-> lastSyncTime]

SetClock(c) ==
    /\ offset' = c.offset
    /\ drift' = c.drift
    /\ samples' = c.samples
    /\ lastSyncTime' = c.lastSyncTime

\* now() at local time t
Now(c, t) ==
    Add(Add(t, c.offset), Mul(c.drift, Sub(t, c.lastSyncTime)))

\* the sample handleResponse builds from a reply, the stored t1 and t4
ResponseSample(response, stored, t4) ==
    LET t1 == OrElse(stored, response.t1)
    IN  [offset |-> Div(Add(Sub(response.t2, t1), Sub(response.t3, t4)),
                        Num(2)),
         rtt |-> Sub(Sub(t4, t1), Sub(response.t3, response.t2)),
         timestamp |-> t4]

\* the sample updateQuickSample builds
QuickSample(off, rtt, t) == [offset |-> off, rtt |-> rtt, timestamp |-> t]

----------------------------------------------------------------------------
(* Operations of ClockSync and of the client's message handlers *)

Init ==
    /\ wall = 1
    /\ offset = Num(0)
    /\ drift = Num(0)
    /\ samples = <<>>
    /\ lastSyncTime = Num(0)
    /\ lastSyncT1 = Undefined
    /\ probes = {}
    /\ handled = [any |-> FALSE, used |-> Undefined, answered |-> Undefined,
                  stored |-> Undefined]
    /\ submitted = <<>>
    /\ lastCall = "none"
    /\ trimSeen = FALSE
    /\ nOps = 0
    /\ resetSeen = FALSE
    /\ audioContext = FALSE
    /\ microtasks = <<>>
    /\ sources = <<>>
    /\ scheduledSources = [k \in {} |-> 0]
    /\ outcomes = {}
    /\ nCalls = 0
    /\ nextSequence = 0
    /\ decoding = <<>>
    /\ played = <<>>
    /\ ws = 0
    /\ connected = FALSE
    /\ heartbeatInterval = 0
    /\ clockSyncInterval = 0
    /\ sockets = <<>>
    /\ timers = {}
    /\ nTimers = 0
    /\ sent = {}
    /\ commands = <<>>

\* the local clock advances
Tick(limit) ==
    /\ wall < limit
    /\ wall' = wall + 1
    /\ submitted' = <<>>
    /\ lastCall' = "tick"
    /\ UNCHANGED <<clockVars, syncVars, trimSeen, resetSeen>>

\* ClockSync.sendSync(client); delivered: the client's socket is open, so
\* client._send puts the message on the wire
SendSync(delivered) ==
    /\ lastSyncT1' = Num(wall)
    /\ probes' = IF delivered THEN probes \cup {Num(wall)} ELSE probes
    /\ submitted' = <<>>
    /\ lastCall' = "sendSync"
    /\ UNCHANGED <<wall, clockVars, handled, trimSeen, resetSeen>>

\* ClockSync.handleResponse(response) at local time wall
HandleResponse(response) ==
    LET sample == ResponseSample(response, lastSyncT1, Num(wall))
    IN  /\ SetClock(AddSample(Clock, sample))
        /\ submitted' = <<sample>>
        /\ lastCall' = "handleResponse"
        /\ trimSeen' = (trimSeen \/ Len(samples) + 1 > maxSamples)
        /\ handled' = [any |-> TRUE,
                       used |-> OrElse(lastSyncT1, response.t1),
                       answered |-> response.t1,
                       stored |-> lastSyncT1]
        /\ UNCHANGED <<wall, lastSyncT1, probes, resetSeen>>

\* ClockSync.updateQuickSample(off, rtt) at local time wall
UpdateQuickSample(off, rtt) ==
    LET sample == QuickSample(off, rtt, Num(wall))
    IN  /\ SetClock(AddSample(Clock, sample))
        /\ submitted' = <<sample>>
        /\ lastCall' = "updateQuickSample"
        /\ trimSeen' = (trimSeen \/ Len(samples) + 1 > maxSamples)
        /\ UNCHANGED <<wall, syncVars, resetSeen>>

\* SoluSyncClient.handleHeartbeat(message) at local time wall
HandleHeartbeat(message) ==
    IF ~IsNaN(message.server_time) /\ message.server_time[1] # 0
    THEN LET rtt == Sub(Num(wall), message.client_time)
             off == Add(Sub(message.server_time, Num(wall)),
                        Div(rtt, Num(2)))
         IN  UpdateQuickSample(off, rtt)
    ELSE /\ submitted' = <<>>
         /\ lastCall' = "handleHeartbeat"
         /\ UNCHANGED <<wall, clockVars, syncVars, trimSeen, resetSeen>>

\* ClockSync.reset()
Reset ==
    /\ SetClock(ResetClock(Clock))
    /\ submitted' = <<>>
    /\ lastCall' = "reset"
    /\ resetSeen' = (resetSeen \/ samples # <<>>)
    /\ UNCHANGED <<wall, syncVars, trimSeen>>

----------------------------------------------------------------------------
(* The ring under a long run of samples: replies and heartbeats of a server *)
(* whose clock equals the local one, answered without delay                 *)

RingReply == [t1 |-> Num(wall), t2 |-> Num(wall), t3 |-> Num(wall)]

RingNext ==
    \/ Tick(MaxRingWall) /\ UNCHANGED <<nOps, playerVars, clientVars>>
    \/ HandleResponse(RingReply) /\ UNCHANGED <<nOps, playerVars, clientVars>>
    \/ UpdateQuickSample(Num(0), Num(0))
           /\ UNCHANGED <<nOps, playerVars, clientVars>>
    \/ Reset /\ UNCHANGED <<nOps, playerVars, clientVars>>

SpecRing == Init /\ [][RingNext]_vars

----------------------------------------------------------------------------
(* The clock under arbitrary replies and heartbeats, MaxOps calls long *)

\* clock_sync_response messages: t1 echoes a probe that was sent; t2 or t3
\* may be missing
Replies ==
    [t1 : probes, t2 : {Num(1), Undefined}, t3 : {Num(1), Num(3), Undefined}]

\* heartbeat messages echoed by the server
Heartbeats ==
    [server_time : {Num(2), Undefined},
     client_time : {Num(1), Undefined}]

Counted(A) ==
    /\ nOps < MaxOps
    /\ nOps' = nOps + 1
    /\ A
    /\ UNCHANGED <<playerVars, clientVars>>

ClockNext ==
    \/ Tick(MaxWall) /\ UNCHANGED <<nOps, playerVars, clientVars>>
    \/ Counted(SendSync(TRUE))
    \/ \E r \in Replies : Counted(HandleResponse(r))
    \/ \E m \in Heartbeats : Counted(HandleHeartbeat(m))
    \/ Counted(Reset)

SpecClock == Init /\ [][ClockNext]_vars

----------------------------------------------------------------------------
(* Claims about ClockSync *)

\* C1: after any sequence of handleResponse, updateQuickSample and reset
\* calls the ring holds at most maxSamples (20) samples.
C1_RingWithinCapacity == Len(samples) <= maxSamples

\* C1 witness: a sample was just added to a full ring, and the trim
\* discarded one.
C1_Witness ==
    /\ trimSeen
    /\ submitted # <<>>
    /\ Len(samples) = maxSamples

\* C4: every processed clock_sync_response is evaluated with the t1 of the
\* probe it answers (the t1 the reply echoes).
C4_UsesAnsweredProbe == handled.any => handled.used = handled.answered

\* C5: once handleResponse has consumed a reply no t1 remains stored, so a
\* duplicate reply finds none.
C5_StoredT1Cleared ==
    lastCall = "handleResponse" => lastSyncT1 = Undefined

\* the rtt values of the last DriftWindow samples, when all are numbers
RECURSIVE CountBelow(_, _, _, _)
CountBelow(s, v, strict, i) ==
    IF i > Len(s) THEN 0
    ELSE (IF Lt(s[i].rtt, v) \/ (~strict /\ s[i].rtt = v) THEN 1 ELSE 0)
         + CountBelow(s, v, strict, i + 1)

\* the k-th smallest rtt of the samples s (k from 1)
KthRtt(s, k) ==
    CHOOSE v \in {s[i].rtt : i \in 1..Len(s)} :
        CountBelow(s, v, TRUE, 1) < k /\ k <= CountBelow(s, v, FALSE, 1)

\* the median rtt of the samples s, which are numbers and not empty
MedianRtt(s) ==
    LET n == Len(s)
    IN  IF n % 2 = 1 THEN KthRtt(s, (n + 1) \div 2)
        ELSE Div(Add(KthRtt(s, n \div 2), KthRtt(s, n \div 2 + 1)), Num(2))

\* a sample the claim says is ignored: negative rtt, or rtt above three
\* times the median rtt of the last ten samples of the ring
Rejectable(sample, ring) ==
    LET last == SliceLast(ring, DriftWindow)
    IN  \/ Lt(sample.rtt, Num(0))
        \/ /\ last # <<>>
           /\ \A i \in 1..Len(last) : ~IsNaN(last[i].rtt)
           /\ Gt(sample.rtt, Mul(Num(3), MedianRtt(last)))

\* C8: a probe whose rtt is negative or above the rejection threshold is
\* ignored: the ring, offset, drift and anchor are as before.
C8_RejectedSampleIgnored ==
    [][(submitted' # <<>> /\ Rejectable(submitted'[1], samples))
        => UNCHANGED clockVars]_vars

\* a sample whose measurement is not a number
NotFinite(sample) == IsNaN(sample.offset) \/ IsNaN(sample.rtt)

\* C9: a malformed reply or a sample whose arithmetic is not finite leaves
\* offset, drift, anchor and the ring as they were.
C9_MalformedLeavesState ==
    [][(submitted' # <<>> /\ NotFinite(submitted'[1]))
        => UNCHANGED clockVars]_vars

\* C10: reset() zeroes offset and drift and empties the ring, and the first
\* sample after a reset leaves the clock as the same sample leaves a newly
\* constructed one.
C10_ResetIsFresh ==
    /\ lastCall = "reset" =>
           offset = Num(0) /\ drift = Num(0) /\ samples = <<>>
    /\ (resetSeen /\ submitted # <<>> /\ Len(samples) = 1) =>
           Clock = AddSample(FreshClock, samples[1])

\* C10 witness: a reset() of a clock with a non-zero estimate, then one
\* sample with a non-zero measurement.
C10_Witness ==
    /\ resetSeen
    /\ submitted # <<>>
    /\ Len(samples) = 1
    /\ offset # Num(0)

----------------------------------------------------------------------------
(* FutureAudioPlayer *)

MaxFuture == 10

\* every step that is no ClockSync sample leaves this history
Hist(name) ==
    /\ lastCall' = name
    /\ submitted' = <<>>
    /\ UNCHANGED <<trimSeen, resetSeen>>

\* decodeAudioData(data) returns a buffer for a payload of `bytes` bytes:
\* createBuffer needs at least one whole 4-byte frame (16-bit stereo), and
\* every getInt16 of the conversion loop must lie inside the payload
DecodeOk(bytes) ==
    LET whole == bytes \div 4
        iters == (bytes + 3) \div 4
    IN  /\ whole >= 1
        /\ \A channel \in 0..1 : \A i \in 0..(iters - 1) :
               (i * 2 + channel) * 2 + 2 <= bytes

\* a lateness test that also drops the frame due exactly now
IsLateOrNow(delay) == ~Gt(delay, Num(0))

\* the first test of scheduleFrame: delay < 0
IsLate(delay) == Lt(delay, Num(0))

\* the second test of scheduleFrame: delay > 10
IsTooFar(delay) == Gt(delay, Num(MaxFuture))

\* the call's result is recorded
Finish(frame, delay, emitted) ==
    outcomes' = outcomes \cup
        {[frame |-> frame, delta |-> delay, emitted |-> emitted]}

\* scheduleFrame from `const now` to the await of decodeAudioData: the late
\* and too-far tests, then the decoding, which runs before the call suspends
Admit(frame, queue) ==
    LET delay == Sub(frame.timestamp, Now(Clock, Num(wall)))
    IN  IF IsLate(delay) \/ IsTooFar(delay)
        THEN /\ microtasks' = queue
             /\ Finish(frame, delay, FALSE)
        ELSE /\ microtasks' = Append(queue,
                   [frame |-> frame, pc |-> "decode", delay |-> delay,
                    decoded |-> DecodeOk(frame.bytes)])
             /\ UNCHANGED outcomes

\* a call of scheduleFrame(frame), up to its first await
ScheduleFrame(frame) ==
    /\ nCalls' = nCalls + 1
    /\ audioContext' = TRUE
    /\ IF ~audioContext
       THEN /\ microtasks' = Append(microtasks,
                  [frame |-> frame, pc |-> "init", delay |-> NaN,
                   decoded |-> FALSE])
            /\ UNCHANGED outcomes
       ELSE Admit(frame, microtasks)
    /\ Hist("scheduleFrame")
    /\ UNCHANGED <<wall, clockVars, syncVars, sources, scheduledSources>>

\* the oldest suspended scheduleFrame call resumes after its await
Resume ==
    /\ microtasks # <<>>
    /\ LET call == Head(microtasks)
           rest == Tail(microtasks)
           id == Len(sources) + 1
       IN  CASE call.pc = "init" ->
                   /\ Admit(call.frame, rest)
                   /\ UNCHANGED <<sources, scheduledSources>>
             [] call.pc = "decode" /\ ~call.decoded ->
                   \* decodeAudioData threw: the call rejects
                   /\ microtasks' = rest
                   /\ Finish(call.frame, call.delay, FALSE)
                   /\ UNCHANGED <<sources, scheduledSources>>
             [] call.pc = "decode" /\ call.decoded /\ IsNaN(call.delay) ->
                   \* source.start(NaN) throws: created, never started
                   /\ microtasks' = rest
                   /\ Finish(call.frame, call.delay, FALSE)
                   /\ sources' = Append(sources,
                          [sequence |-> call.frame.sequence,
                           timestamp |-> call.frame.timestamp,
                           state |-> "unstarted"])
                   /\ UNCHANGED scheduledSources
             [] OTHER ->
                   /\ microtasks' = rest
                   /\ Finish(call.frame, call.delay, TRUE)
                   /\ sources' = Append(sources,
                          [sequence |-> call.frame.sequence,
                           timestamp |-> call.frame.timestamp,
                           state |-> "playing"])
                   /\ scheduledSources' =
                          [k \in DOMAIN scheduledSources
                                   \cup {call.frame.sequence} |->
                              IF k = call.frame.sequence THEN id
                              ELSE scheduledSources[k]]
    /\ Hist("resume")
    /\ UNCHANGED <<wall, clockVars, syncVars, audioContext, nCalls>>

\* source `id` ends (played out, or stopped): its onended handler deletes
\* the entry of its frame's sequence number
SourceEnded(id) ==
    /\ id \in DOMAIN sources
    /\ sources[id].state \in {"playing", "stopping"}
    /\ sources' = [sources EXCEPT ![id].state = "ended"]
    /\ scheduledSources' =
           [k \in DOMAIN scheduledSources \ {sources[id].sequence} |->
               scheduledSources[k]]
    /\ Hist("ended")
    /\ UNCHANGED <<wall, clockVars, syncVars, audioContext, microtasks,
                   outcomes, nCalls>>

\* the sources map and the sources after FutureAudioPlayer.stop()
StopAll ==
    /\ sources' =
           [i \in DOMAIN sources |->
               IF /\ \E k \in DOMAIN scheduledSources :
                         scheduledSources[k] = i
                  /\ sources[i].state = "playing"
               THEN [sources[i] EXCEPT !.state = "stopping"]
               ELSE sources[i]]
    /\ scheduledSources' = [k \in {} |-> 0]

\* FutureAudioPlayer.stop()
Stop ==
    /\ StopAll
    /\ Hist("stop")
    /\ UNCHANGED <<wall, clockVars, syncVars, audioContext, microtasks,
                   outcomes, nCalls>>

----------------------------------------------------------------------------
(* The player under frames that arrive in any order *)

MaxFrames == 2

PlayerFrames ==
    [timestamp : {Num(0), Num(1), Num(11), Num(12)},
     sequence : {1, 2},
     bytes : {0, 4, 6}]

PlayerRest == UNCHANGED <<nOps, handled, bufferVars, clientVars>>

PlayerNext ==
    \/ Tick(MaxWall) /\ UNCHANGED playerVars /\ PlayerRest
    \/ \E f \in PlayerFrames :
           nCalls < MaxFrames /\ ScheduleFrame(f) /\ PlayerRest
    \/ Resume /\ PlayerRest
    \/ \E id \in DOMAIN sources : SourceEnded(id) /\ PlayerRest
    \/ Stop /\ PlayerRest

SpecPlayer == Init /\ [][PlayerNext]_vars

----------------------------------------------------------------------------
(* Claims about FutureAudioPlayer.scheduleFrame *)

\* 0 <= delta <= 10
InWindow(delta) ==
    ~IsNaN(delta) /\ ~Lt(delta, Num(0)) /\ ~Gt(delta, Num(MaxFuture))

\* a source was created for the frame of outcome o
HandedOver(o) ==
    \E i \in DOMAIN sources :
        /\ sources[i].sequence = o.frame.sequence
        /\ sources[i].timestamp = o.frame.timestamp

\* C2 as stated: a frame is handed to the renderer if and only if its
\* delta at admission satisfies 0 <= delta <= 10 s.
C2_EmittedIffInWindow ==
    \A o \in outcomes : o.emitted <=> InWindow(o.delta)

\* a payload of whole 16-bit stereo sample frames, at least one
WholeFrames(bytes) == bytes > 0 /\ bytes % 4 = 0

\* C2 as amended: a frame is handed to the renderer if and only if its
\* delta at admission satisfies 0 <= delta <= 10 s and its payload decodes
\* (a positive multiple of 4 bytes); every source the player creates
\* belongs to such a frame, so late and too-far frames cause no renderer
\* call.
C2_EmittedIffInWindowAndDecodable ==
    /\ \A o \in outcomes :
           o.emitted <=> (InWindow(o.delta) /\ WholeFrames(o.frame.bytes))
    /\ \A o \in outcomes : o.emitted => HandedOver(o)
    /\ \A i \in DOMAIN sources :
           \E o \in outcomes :
               /\ o.emitted
               /\ InWindow(o.delta)
               /\ o.frame.sequence = sources[i].sequence
               /\ o.frame.timestamp = sources[i].timestamp

\* C2 witness: a frame due exactly now was emitted, and a decodable frame
\* outside the window was dropped.
C2_Witness ==
    /\ \E o \in outcomes : o.emitted /\ o.delta = Num(0)
    /\ \E o \in outcomes :
           /\ ~o.emitted
           /\ WholeFrames(o.frame.bytes)
           /\ (Lt(o.delta, Num(0)) \/ Gt(o.delta, Num(MaxFuture)))

\* C3: the frames handed to the renderer are handed over in non-decreasing
\* presentation time.
C3_RendererOrder ==
    \A i, j \in DOMAIN sources :
        i < j => ~Gt(sources[i].timestamp, sources[j].timestamp)

----------------------------------------------------------------------------
(* SoluSyncClient: sockets and interval timers *)

\* a send that does not wait for the socket to be open
SendsUnchecked(type) ==
    IF ws # 0
    THEN sent \cup {[socket |-> ws, type |-> type]}
    ELSE sent

\* the sent log after send(message): the message goes out only when the
\* client holds a socket and that socket is open
Sends(type) ==
    IF ws # 0 /\ sockets[ws] = "open"
    THEN sent \cup {[socket |-> ws, type |-> type]}
    ELSE sent

\* connect(): a new WebSocket replaces this.ws; its handlers are attached
Connect ==
    /\ sockets' = Append(sockets, "connecting")
    /\ ws' = Len(sockets) + 1
    /\ Hist("connect")
    /\ UNCHANGED <<connected, heartbeatInterval, clockSyncInterval, timers,
                   nTimers, sent, commands>>

\* ws.onopen of socket s: connected, hello, startHeartbeat, startClockSync
SocketOpen(s) ==
    /\ s \in DOMAIN sockets
    /\ sockets[s] = "connecting"
    /\ sockets' = [sockets EXCEPT ![s] = "open"]
    /\ connected' = TRUE
    /\ sent' = IF ws # 0 /\ sockets'[ws] = "open"
               THEN sent \cup {[socket |-> ws, type |-> "hello"]}
               ELSE sent
    /\ heartbeatInterval' = nTimers + 1
    /\ clockSyncInterval' = nTimers + 2
    /\ timers' = timers \cup {[id |-> nTimers + 1, kind |-> "heartbeat"],
                              [id |-> nTimers + 2, kind |-> "clock_sync"]}
    /\ nTimers' = nTimers + 2
    /\ Hist("open")
    /\ UNCHANGED <<ws, commands>>

\* the armed timers after stopHeartbeat() and stopClockSync(): each clears
\* the one timer whose id the client still holds
StoppedTimers ==
    {t \in timers : t.id # heartbeatInterval /\ t.id # clockSyncInterval}

\* ws.onclose of socket s: the close event of a socket that was closed by
\* close(), by the peer, or by a failed connection
SocketClose(s) ==
    /\ s \in DOMAIN sockets
    /\ sockets[s] \in {"connecting", "open", "closing"}
    /\ sockets' = [sockets EXCEPT ![s] = "closed"]
    /\ connected' = FALSE
    /\ timers' = StoppedTimers
    /\ heartbeatInterval' = 0
    /\ clockSyncInterval' = 0
    /\ Hist("close")
    /\ UNCHANGED <<ws, nTimers, sent, commands>>

\* disconnect(): close the held socket and forget it
Disconnect ==
    /\ sockets' = IF ws # 0 /\ sockets[ws] \in {"connecting", "open"}
                  THEN [sockets EXCEPT ![ws] = "closing"]
                  ELSE sockets
    /\ ws' = 0
    /\ connected' = FALSE
    /\ Hist("disconnect")
    /\ UNCHANGED <<heartbeatInterval, clockSyncInterval, timers, nTimers,
                   sent, commands>>

\* the callback of heartbeat timer t
HeartbeatTimer(t) ==
    /\ t \in timers
    /\ t.kind = "heartbeat"
    /\ sent' = IF connected THEN Sends("heartbeat") ELSE sent
    /\ Hist("heartbeatTimer")
    /\ UNCHANGED <<ws, connected, heartbeatInterval, clockSyncInterval,
                   sockets, timers, nTimers, commands>>

\* the callback of clock-sync timer t
ClockSyncTimer(t) ==
    /\ t \in timers
    /\ t.kind = "clock_sync"
    /\ IF connected
       THEN /\ SendSync(ws # 0 /\ sockets[ws] = "open")
            /\ sent' = Sends("clock_sync")
       ELSE /\ Hist("clockSyncTimer")
            /\ UNCHANGED <<wall, clockVars, syncVars, sent>>
    /\ UNCHANGED <<ws, connected, heartbeatInterval, clockSyncInterval,
                   sockets, timers, nTimers, commands>>

----------------------------------------------------------------------------
(* The client under connect, disconnect, socket events and timers, with    *)
(* audio scheduled on its player                                           *)

MaxSockets == 2

ClientFrames == {[timestamp |-> Num(2), sequence |-> 1, bytes |-> 4]}

ClientRest == UNCHANGED <<wall, clockVars, syncVars, nOps, playerVars>>

ClientNext ==
    \/ Len(sockets) < MaxSockets /\ Connect /\ ClientRest
    \/ \E s \in DOMAIN sockets : SocketOpen(s) /\ ClientRest
    \/ \E s \in DOMAIN sockets : SocketClose(s) /\ ClientRest
    \/ Disconnect /\ ClientRest
    \/ \E t \in timers : HeartbeatTimer(t) /\ ClientRest
    \/ \E t \in timers : ClockSyncTimer(t) /\ UNCHANGED <<nOps, playerVars>>
    \/ \E f \in ClientFrames :
           nCalls < MaxFrames /\ ScheduleFrame(f)
               /\ UNCHANGED <<nOps, handled, bufferVars, clientVars>>
    \/ Resume /\ UNCHANGED <<nOps, handled, bufferVars, clientVars>>
    \/ \E id \in DOMAIN sources :
           SourceEnded(id)
               /\ UNCHANGED <<nOps, handled, bufferVars, clientVars>>

SpecClient == Init /\ [][ClientNext]_vars

----------------------------------------------------------------------------
(* Claims about SoluSyncClient *)

\* C6: after disconnect() or a transport close nothing scheduled before it
\* remains scheduled or playing: scheduledSources is empty and no source
\* plays.
C6_DisconnectStopsPlayback ==
    (sockets # <<>> /\ lastCall \in {"disconnect", "close"}) =>
        /\ DOMAIN scheduledSources = {}
        /\ \A i \in DOMAIN sources : sources[i].state # "playing"

\* no socket is connecting, open or waiting for its close event
AllSessionsClosed ==
    \A s \in DOMAIN sockets : sockets[s] = "closed"

\* C7: once the session has closed (and every close event has been
\* delivered) no heartbeat timer and no clock-sync timer remains armed.
C7_NoTimerAfterClose ==
    (sockets # <<>> /\ AllSessionsClosed) => timers = {}

----------------------------------------------------------------------------
(* The client's session and its clock: connect, disconnect and socket      *)
(* events interleaved with heartbeat messages that feed the clock          *)

MaxSessionOps == 3

\* a disconnect() that also cleared the clock
OnDisconnectResetting ==
    /\ Disconnect
    /\ SetClock(ResetClock(Clock))
    /\ UNCHANGED <<wall, syncVars, playerVars>>

\* disconnect() with everything it leaves alone: ws.close() and the two
\* assignments touch neither the clock nor the player
OnDisconnect ==
    /\ Disconnect
    /\ UNCHANGED <<wall, clockVars, syncVars, playerVars>>

\* connect() with everything it leaves alone
OnConnect ==
    /\ Connect
    /\ UNCHANGED <<wall, clockVars, syncVars, playerVars>>

\* ws.onopen with everything it leaves alone
OnSocketOpen(s) ==
    /\ SocketOpen(s)
    /\ UNCHANGED <<wall, clockVars, syncVars, playerVars>>

\* ws.onclose with everything it leaves alone
OnSocketClose(s) ==
    /\ SocketClose(s)
    /\ UNCHANGED <<wall, clockVars, syncVars, playerVars>>

\* ws.onmessage of socket s with a heartbeat message: handleMessage
\* dispatches to handleHeartbeat
OnHeartbeatMessage(s, message) ==
    /\ s \in DOMAIN sockets
    /\ sockets[s] \in {"open", "closing"}
    /\ HandleHeartbeat(message)
    /\ UNCHANGED <<playerVars, clientVars>>

SessionHeartbeats == {[server_time |-> Num(2), client_time |-> Num(1)]}

SessionNext ==
    \/ Tick(MaxWall) /\ UNCHANGED <<nOps, playerVars, clientVars>>
    \/ Len(sockets) < MaxSockets /\ OnConnect /\ UNCHANGED nOps
    \/ \E s \in DOMAIN sockets : OnSocketOpen(s) /\ UNCHANGED nOps
    \/ \E s \in DOMAIN sockets : OnSocketClose(s) /\ UNCHANGED nOps
    \/ OnDisconnect /\ UNCHANGED nOps
    \/ \E s \in DOMAIN sockets, m \in SessionHeartbeats :
           /\ nOps < MaxSessionOps
           /\ nOps' = nOps + 1
           /\ OnHeartbeatMessage(s, m)
    \/ Reset /\ UNCHANGED <<nOps, playerVars, clientVars>>

SpecSession == Init /\ [][SessionNext]_vars

\* C11: connect(), the socket's open and close events and disconnect()
\* leave offset, drift, the anchor lastSyncTime and the sample ring as they
\* were, and a ring that held samples is emptied by reset() only.
C11_SessionKeepsClock ==
    [][/\ lastCall' \in {"connect", "open", "close", "disconnect"}
           => UNCHANGED clockVars
       /\ (samples # <<>> /\ samples' = <<>>) => lastCall' = "reset"]_vars

\* C11 witness: a second connect() after the first session was closed by
\* disconnect(), with an offset, a drift, an anchor and a ring still held
C11_Witness ==
    /\ lastCall = "connect"
    /\ Len(sockets) >= 2
    /\ sockets[1] = "closed"
    /\ ws = 2
    /\ Len(samples) >= 3
    /\ offset # Num(0)
    /\ drift # Num(0)
    /\ lastSyncTime # Num(0)

----------------------------------------------------------------------------
(* Further claims about ClockSync *)

\* a <= b as the comparison of two numbers: false when either is NaN
Leq(a, b) == ~IsNaN(a) /\ ~IsNaN(b) /\ ~Gt(a, b)

\* x lies between a and b, in either order
Between(x, a, b) ==
    \/ Leq(a, x) /\ Leq(x, b)
    \/ Leq(b, x) /\ Leq(x, a)

\* C12: every sample that addSample takes moves the offset to
\* 0.9 * old offset + 0.1 * measured offset, by no more than a tenth of
\* the distance to the measurement, and to a value between the old offset
\* and the measurement.
C12_EmaStep ==
    [][submitted' # <<>> =>
         LET meas == submitted'[1].offset
         IN  /\ offset' = Add(Mul(Frac(9, 10), offset),
                              Mul(Frac(1, 10), meas))
             /\ Leq(Abs(Sub(offset', offset)),
                    Mul(Frac(1, 10), Abs(Sub(meas, offset))))
             /\ Between(offset', offset, meas)]_vars

\* the mean of the numbers of the sequence q
Mean(q) == Div(SumFrom(q, 1), Num(Len(q)))

\* the sum of (x - mean x) * (y - mean y) over two sequences of one length
Covariation(xs, ys) ==
    LET mx == Mean(xs)
        my == Mean(ys)
    IN  SumFrom([i \in 1..Len(xs) |->
                    Mul(Sub(xs[i], mx), Sub(ys[i], my))], 1)

\* C13: the drift is 0 while the ring holds fewer than 3 samples, and the
\* addition that takes the ring from 2 to 3 samples sets the drift to the
\* least-squares slope of offset against timestamp over those 3 samples
\* (covariation over the timestamps' variation), unless the timestamps
\* spread too little for the slope, and then the drift keeps its value.
C13_DriftFromThirdSample ==
    [][/\ (Len(samples) < 3 /\ Len(samples') < 3) =>
              (drift = Num(0) /\ drift' = Num(0))
       /\ (Len(samples) = 2 /\ Len(samples') = 3) =>
            LET xs == <<samples'[1].timestamp, samples'[2].timestamp,
                        samples'[3].timestamp>>
                ys == <<samples'[1].offset, samples'[2].offset,
                        samples'[3].offset>>
                sxx == Covariation(xs, xs)
            IN  IF Gt(Mul(Num(3), sxx), DriftEpsilon)
                THEN drift' = Div(Covariation(xs, ys), sxx)
                ELSE drift' = drift]_vars

\* C13 witness: the third sample has just been added and the drift is a
\* non-zero slope
C13_Witness ==
    /\ submitted # <<>>
    /\ Len(samples) = 3
    /\ ~IsNaN(drift)
    /\ drift # Num(0)

\* C14: now() does not go back as the local time advances with the clock's
\* fields held: now() one second from now is not below now() now.
C14_NowMonotone ==
    ~Gt(Now(Clock, Num(wall)), Now(Clock, Num(wall + 1)))

\* C15: the sample that handleResponse adds has
\* rtt = (t4 - t1) - (t3 - t2) and offset = ((t2 - t1) + (t3 - t4)) / 2
\* for the t1, t2 and t3 of a reply to the probe it answers and the local
\* receive time t4, and its timestamp is t4.
C15_SampleFromReply ==
    [][lastCall' = "handleResponse" =>
         \E reply \in Replies \cup {RingReply} :
             LET t1 == reply.t1
                 t2 == reply.t2
                 t3 == reply.t3
                 t4 == Num(wall)
             IN  /\ t1 = handled'.answered
                 /\ submitted' =
                        <<[rtt |-> Sub(Sub(t4, t1), Sub(t3, t2)),
                           offset |-> Div(Add(Sub(t2, t1), Sub(t3, t4)),
                                          Num(2)),
                           timestamp |-> t4]>>]_vars

----------------------------------------------------------------------------
(* FutureAudioPlayer.playBuffer *)

MaxPlays == 2

\* the lateness from which the spec rejects a command: 100 ms
TooLate == Frac(1, 10)

\* Math.max(0, x)
MaxZero(x) ==
    IF IsNaN(x) THEN NaN ELSE IF Lt(x, Num(0)) THEN Num(0) ELSE x

\* a call of playBuffer(data, startAt), up to the await of the context's
\* decodeAudioData(data); `decodable` tells whether that decoding succeeds.
\* The await of init() of a new player resumes with nothing read or
\* written before the decoding is requested, and is not a step of its own.
PlayBuffer(startAt, decodable) ==
    /\ audioContext' = TRUE
    /\ decoding' = Append(decoding,
                          [startAt |-> startAt, decodable |-> decodable])
    /\ Hist("playBuffer")
    /\ UNCHANGED <<wall, clockVars, syncVars, microtasks, sources,
                   scheduledSources, outcomes, nCalls, nextSequence, played>>

\* the decoding of the suspended playBuffer call i completes, in whatever
\* order the context finishes its decodings, and the call runs to its end
PlayDecoded(i) ==
    /\ i \in DOMAIN decoding
    /\ LET call == decoding[i]
           now == Now(Clock, Num(wall))
           delay == MaxZero(Sub(call.startAt, now))
           id == Len(sources) + 1
           result(started) ==
               [startAt |-> call.startAt, late |-> Sub(now, call.startAt),
                started |-> started]
       IN  /\ decoding' = [k \in 1..(Len(decoding) - 1) |->
                              IF k < i THEN decoding[k] ELSE decoding[k + 1]]
           /\ CASE ~call.decodable ->
                       \* decodeAudioData rejected: the call rejects
                       /\ played' = Append(played, result(FALSE))
                       /\ UNCHANGED <<sources, scheduledSources,
                                      nextSequence>>
                [] call.decodable /\ IsNaN(delay) ->
                       \* source.start(NaN) throws: created, never started
                       /\ played' = Append(played, result(FALSE))
                       /\ sources' = Append(sources,
                              [sequence |-> nextSequence,
                               timestamp |-> call.startAt,
                               state |-> "unstarted"])
                       /\ UNCHANGED <<scheduledSources, nextSequence>>
                [] OTHER ->
                       /\ played' = Append(played, result(TRUE))
                       /\ sources' = Append(sources,
                              [sequence |-> nextSequence,
                               timestamp |-> call.startAt,
                               state |-> "playing"])
                       /\ scheduledSources' =
                              [k \in DOMAIN scheduledSources
                                       \cup {nextSequence} |->
                                  IF k = nextSequence THEN id
                                  ELSE scheduledSources[k]]
                       /\ nextSequence' = nextSequence + 1
    /\ Hist("playDecoded")
    /\ UNCHANGED <<wall, clockVars, syncVars, audioContext, microtasks,
                   outcomes, nCalls>>

----------------------------------------------------------------------------
(* The player under playBuffer calls with start times before and after now *)

PlayStarts == {Num(0), Frac(9, 10), Frac(19, 20), Num(1), Num(3), NaN}

PlaybackRest == UNCHANGED <<nOps, handled, clientVars>>

PlaybackNext ==
    \/ Tick(MaxWall) /\ UNCHANGED playerVars /\ PlaybackRest
    \/ \E startAt \in PlayStarts, decodable \in BOOLEAN :
           /\ Len(decoding) + Len(played) < MaxPlays
           /\ PlayBuffer(startAt, decodable)
           /\ PlaybackRest
    \/ \E i \in DOMAIN decoding : PlayDecoded(i) /\ PlaybackRest
    \/ \E id \in DOMAIN sources :
           SourceEnded(id) /\ UNCHANGED bufferVars /\ PlaybackRest
    \/ Stop /\ UNCHANGED bufferVars /\ PlaybackRest

SpecPlayback == Init /\ [][PlaybackNext]_vars

\* C16: a playBuffer call whose start time lies 100 ms or more before now()
\* when it comes to start its source starts nothing.
C16_TooLateRejected ==
    \A i \in DOMAIN played :
        played[i].started => Lt(played[i].late, TooLate)

----------------------------------------------------------------------------
(* SoluSyncClient: the media commands play, pause and stop *)

MaxCommands == 2

\* send(message) of a media_control message: the message goes out only on
\* an open socket and is dropped otherwise; the call is logged
SendCommand(action, start_at) ==
    /\ sent' = Sends("media_control")
    /\ commands' = Append(commands,
                          [action |-> action, start_at |-> start_at,
                           wired |-> ws # 0 /\ sockets[ws] = "open"])
    /\ Hist(action)
    /\ UNCHANGED <<ws, connected, heartbeatInterval, clockSyncInterval,
                   sockets, timers, nTimers>>
    /\ UNCHANGED <<wall, clockVars, syncVars, playerVars>>

\* play(trackId, startAt)
Play(startAt) ==
    SendCommand("play",
                OrElse(startAt, Add(Now(Clock, Num(wall)), Frac(1, 10))))

\* pause(trackId)
Pause == SendCommand("pause", Now(Clock, Num(wall)))

\* stop(trackId)
StopCommand == SendCommand("stop", Now(Clock, Num(wall)))

----------------------------------------------------------------------------
(* The client under commands issued while its sessions open and close *)

CommandStarts == {Undefined, Num(2)}

CommandsNext ==
    \/ Len(sockets) < MaxSockets /\ OnConnect /\ UNCHANGED nOps
    \/ \E s \in DOMAIN sockets : OnSocketOpen(s) /\ UNCHANGED nOps
    \/ \E s \in DOMAIN sockets : OnSocketClose(s) /\ UNCHANGED nOps
    \/ OnDisconnect /\ UNCHANGED nOps
    \/ \E startAt \in CommandStarts :
           Len(commands) < MaxCommands /\ Play(startAt) /\ UNCHANGED nOps
    \/ Len(commands) < MaxCommands /\ Pause /\ UNCHANGED nOps
    \/ Len(commands) < MaxCommands /\ StopCommand /\ UNCHANGED nOps
    \/ \E t \in timers : HeartbeatTimer(t) /\ ClientRest

\* the close event of a socket that close() was called on
ClosingDelivered ==
    \E s \in DOMAIN sockets :
        sockets[s] = "closing" /\ OnSocketClose(s) /\ UNCHANGED nOps

\* an armed heartbeat timer fires
HeartbeatFires == \E t \in timers : HeartbeatTimer(t) /\ ClientRest

\* the event loop delivers the close event of every socket that close()
\* was called on, and runs the callback of every armed interval timer
SpecCommands ==
    /\ Init
    /\ [][CommandsNext]_vars
    /\ WF_vars(ClosingDelivered)
    /\ WF_vars(HeartbeatFires)

\* the client holds an open socket and is connected
SessionOpen == connected /\ ws # 0 /\ sockets[ws] = "open"

\* C17: no command stays unsent while the client is connected: a command
\* issued when no socket was open has gone out by some time after the
\* client is connected again.
C17_CommandsSentOnceConnected ==
    \A i \in 1..MaxCommands :
        []<>~(SessionOpen /\ i \in DOMAIN commands /\ ~commands[i].wired)

----------------------------------------------------------------------------
(* SoluSyncClient.getNetworkQuality *)

\* ClockSync.getLastRTT(): the last sample's rtt in milliseconds, 0 when
\* there is no sample
GetLastRTT(smp) ==
    IF Len(smp) = 0 THEN Num(0) ELSE Mul(smp[Len(smp)].rtt, Num(1000))

\* a classification that counts 50 ms as Good
GetNetworkQualityInclusive(smp) ==
    LET rtt == GetLastRTT(smp)
    IN  IF Lt(rtt, Num(10)) THEN "excellent"
        ELSE IF ~Gt(rtt, Num(50)) THEN "good"
        ELSE IF Lt(rtt, Num(100)) THEN "fair"
        ELSE IF Lt(rtt, Num(200)) THEN "poor"
        ELSE "critical"

\* getNetworkQuality() of a client whose clock holds the samples smp
GetNetworkQuality(smp) ==
    LET rtt == GetLastRTT(smp)
    IN  IF Lt(rtt, Num(10)) THEN "excellent"
        ELSE IF Lt(rtt, Num(50)) THEN "good"
        ELSE IF Lt(rtt, Num(100)) THEN "fair"
        ELSE IF Lt(rtt, Num(200)) THEN "poor"
        ELSE "critical"

----------------------------------------------------------------------------
(* The clock under samples whose round-trip times lie on both sides of    *)
(* every threshold of the quality table                                    *)

MaxQualityOps == 2

\* round-trip times in seconds
QualityRtts ==
    {Frac(-1, 100), Num(0), Frac(5, 1000), Frac(9, 1000), Frac(10, 1000),
     Frac(49, 1000), Frac(50, 1000), Frac(99, 1000), Frac(100, 1000),
     Frac(199, 1000), Frac(200, 1000), Num(1), NaN}

QualityNext ==
    \/ \E rtt \in QualityRtts :
           /\ nOps < MaxQualityOps
           /\ nOps' = nOps + 1
           /\ UpdateQuickSample(Num(0), rtt)
           /\ UNCHANGED <<playerVars, clientVars>>
    \/ Reset /\ UNCHANGED <<nOps, playerVars, clientVars>>

SpecQuality == Init /\ [][QualityNext]_vars

\* the level of the quality table for a round-trip time in milliseconds
TableQuality(ms) ==
    CASE Lt(ms, Num(10)) -> "excellent"
      [] Leq(Num(10), ms) /\ Lt(ms, Num(50)) -> "good"
      [] Leq(Num(50), ms) /\ Lt(ms, Num(100)) -> "fair"
      [] Leq(Num(100), ms) /\ Lt(ms, Num(200)) -> "poor"
      [] Leq(Num(200), ms) -> "critical"
      [] OTHER -> "none"

RECURSIVE SmoothedRtt(_, _)
SmoothedRtt(smp, n) ==
    IF n = 0 THEN Num(0)
    ELSE IF n = 1 THEN smp[1].rtt
    ELSE Add(Mul(Sub(Num(1), filterWeight), SmoothedRtt(smp, n - 1)),
             Mul(filterWeight, smp[n].rtt))

\* the level of the quality table for the smoothed round-trip time
SmoothedQuality(smp) ==
    TableQuality(Mul(Num(1000), SmoothedRtt(smp, Len(smp))))

\* C19: when a sample changes the quality that getNetworkQuality reports
\* (all round-trip times held being numbers from 0 up), the smoothed
\* round-trip time has crossed a threshold of the table at that sample.
C19_QualityFromSmoothedRtt ==
    [][(submitted' # <<>>
          /\ \A i \in DOMAIN samples' : Leq(Num(0), samples'[i].rtt)
          /\ GetNetworkQuality(samples') # GetNetworkQuality(samples))
       => SmoothedQuality(samples') # SmoothedQuality(samples)]_vars

\* C20: every sample added goes last in the ring; added to a full ring of
\* maxSamples (20) it pushes out exactly the oldest sample and the other 19
\* keep their order, and added to a ring with room it pushes out none.
C20_RingKeepsNewestInOrder ==
    [][submitted' # <<>> =>
         samples' = IF Len(samples) = maxSamples
                    THEN Append(Tail(samples), submitted'[1])
                    ELSE Append(samples, submitted'[1])]_vars

\* C20 witness: a sample newer than the ring's oldest has just been added
\* to a full ring, which is full again
C20_Witness ==
    /\ trimSeen
    /\ submitted # <<>>
    /\ Len(samples) = maxSamples
    /\ samples[maxSamples] = submitted[1]
    /\ samples[1].timestamp # samples[maxSamples].timestamp

----------------------------------------------------------------------------
(* The player under scheduleFrame, playBuffer and stop together: frames    *)
(* whose sequence numbers are values of playBuffer's counter nextSequence  *)

StopFrames ==
    [timestamp : {Num(1), Num(2)}, sequence : {0, 1}, bytes : {4}]

StopStarts == {Num(1)}

StopRest == UNCHANGED <<nOps, handled, clientVars>>

StopNext ==
    \/ \E f \in StopFrames :
           /\ nCalls < MaxFrames
           /\ ScheduleFrame(f)
           /\ UNCHANGED bufferVars
           /\ StopRest
    \/ Resume /\ UNCHANGED bufferVars /\ StopRest
    \/ \E startAt \in StopStarts :
           /\ Len(decoding) + Len(played) < MaxPlays
           /\ PlayBuffer(startAt, TRUE)
           /\ StopRest
    \/ \E i \in DOMAIN decoding : PlayDecoded(i) /\ StopRest
    \/ \E id \in DOMAIN sources :
           SourceEnded(id) /\ UNCHANGED bufferVars /\ StopRest
    \/ Stop /\ UNCHANGED bufferVars /\ StopRest

SpecStop == Init /\ [][StopNext]_vars

\* C21: when stop() returns no source is still playing, and a scheduleFrame
\* or playBuffer call that was suspended when stop() ran schedules no
\* source when it resumes right after the stop().
C21_StopStopsEverything ==
    [][/\ lastCall' = "stop" =>
              \A i \in DOMAIN sources' : sources'[i].state # "playing"
       /\ (lastCall = "stop" /\ lastCall' \in {"resume", "playDecoded"}) =>
              DOMAIN scheduledSources' = {}]_vars

----------------------------------------------------------------------------
(* Further claims about SoluSyncClient *)

\* C22: the connected flag is true exactly when the socket the client
\* holds has opened and has not closed.
C22_ConnectedIffHeldSocketOpen ==
    connected <=> (ws # 0 /\ sockets[ws] = "open")

----------------------------------------------------------------------------
(* The client's sessions with every sender of messages: the open handler,  *)
(* the two interval timers and the media commands                          *)

MaxHelloCommands == 1

HelloNext ==
    \/ Len(sockets) < MaxSockets /\ OnConnect /\ UNCHANGED nOps
    \/ \E s \in DOMAIN sockets : OnSocketOpen(s) /\ UNCHANGED nOps
    \/ \E s \in DOMAIN sockets : OnSocketClose(s) /\ UNCHANGED nOps
    \/ OnDisconnect /\ UNCHANGED nOps
    \/ \E t \in timers : HeartbeatTimer(t) /\ ClientRest
    \/ \E t \in timers : ClockSyncTimer(t) /\ UNCHANGED <<nOps, playerVars>>
    \/ Len(commands) < MaxHelloCommands /\ Play(Undefined) /\ UNCHANGED nOps
    \/ Len(commands) < MaxHelloCommands /\ Pause /\ UNCHANGED nOps
    \/ Len(commands) < MaxHelloCommands /\ StopCommand /\ UNCHANGED nOps

SpecHello == Init /\ [][HelloNext]_vars

\* C23: a heartbeat, clock_sync or media_control message goes out on a
\* socket only after the hello of that socket has gone out on it.
C23_HelloFirst ==
    [][\A m \in sent' \ sent :
           m.type # "hello" =>
               [socket |-> m.socket, type |-> "hello"] \in sent]_vars

\* C23 witness: a command has just been issued while the held socket is
\* still connecting, after an earlier session carried its hello and then a
\* heartbeat; nothing has gone out on the connecting socket
C23_Witness ==
    /\ lastCall \in {"play", "pause", "stop"}
    /\ ws = 2
    /\ sockets[ws] = "connecting"
    /\ \A m \in sent : m.socket # ws
    /\ [socket |-> 1, type |-> "hello"] \in sent
    /\ [socket |-> 1, type |-> "heartbeat"] \in sent

====
